---- MODULE Spec2Model ----
(***************************************************************************)
(* EcoGrid time-of-use dispatch optimizer (TOUOptimizer), its scenario     *)
(* simulator and the backend OptimizationService that shares one optimizer *)
(* instance between requests.                                              *)
(*                                                                         *)
(* Numbers.  The Python code works on floats.  Here every power/energy     *)
(* quantity is an integer number of lattice units, and the fractional      *)
(* settings are kept as the integer numerators of tenths (efficiency 0.9   *)
(* is 9, min_soc 0.1 is 1, ...) or hundredths (tariff rates).  Quantities  *)
(* whose name ends in 10 are ten times the Python value (soc10, cost10).   *)
(* Every comparison of the code is multiplied through so that it is exact. *)
(* The decision variables of the MILP range over the integer lattice.      *)
(* Python's 0-based hour t is index t+1 of the sequences.                  *)
(***************************************************************************)
EXTENDS Integers, Sequences, FiniteSets, TLC

\* ---------------------------------------------------------------- bounds
MaxT == 2
MaxScenarios == 2

\* ------------------------------------------------- settings (tenths etc.)
battery_efficiency10 == 9
min_soc10 == 1
max_soc10 == 9
summer_peak_rate100 == 934
summer_off_peak_rate100 == 229
renewable_credit10 == 8
peak_limit_ratio10 == 8
target_peak_ratio10 == 8

\* ----------------------------------------------------------- arithmetic
Max2(a, b) == IF a >= b THEN a ELSE b
Min2(a, b) == IF a <= b THEN a ELSE b

RECURSIVE SeqSum(_)
SeqSum(s) == IF s = <<>> THEN 0 ELSE Head(s) + SeqSum(Tail(s))

RECURSIVE SeqMax(_)
\* builtin max() / np.max() of a non-empty sequence
SeqMax(s) == IF Len(s) = 1 THEN s[1] ELSE Max2(Head(s), SeqMax(Tail(s)))

SetMin(S) == CHOOSE x \in S : \A y \in S : x <= y

\* --------------------------------------------------- tariff classification
\* tariffs[t] >= settings.summer_peak_rate * 0.9
IsPeakTariff(tariff) == tariff * 1000 >= summer_peak_rate100 * 9
\* tariffs[t] <= settings.summer_off_peak_rate * 1.1
IsOffPeakTariff(tariff) == tariff * 1000 <= summer_off_peak_rate100 * 11

\* ------------------------------------------------ MILP decision variables
\* one record per hour: the values of grid_buy_t, battery_charge_t,
\* battery_discharge_t, solar_used_t, wind_used_t and charge_flag_t.

\* mutant: the upper bound of grid_buy is left out
GridBuyBoundsNoCap(h, max_contract) == 0 <= h.grid_buy

\* grid_buy: lowBound=0, upBound=self.max_contract
GridBuyBounds(h, max_contract) ==
    0 <= h.grid_buy /\ h.grid_buy <= max_contract

\* battery_charge / battery_discharge: lowBound=0, upBound=capacity*0.5
BatteryRateBounds(h, battery_capacity) ==
    /\ 0 <= h.battery_charge /\ 2 * h.battery_charge <= battery_capacity
    /\ 0 <= h.battery_discharge /\ 2 * h.battery_discharge <= battery_capacity

\* mutant: the soc variables have the lower bound 0
SocBoundsFromZero(soc10, battery_capacity) ==
    0 <= soc10 /\ soc10 <= battery_capacity * max_soc10

\* soc: lowBound=capacity*min_soc, upBound=capacity*max_soc  (soc10 = 10*soc)
SocBounds(soc10, battery_capacity) ==
    /\ battery_capacity * min_soc10 <= soc10
    /\ soc10 <= battery_capacity * max_soc10

\* solar_used / wind_used: lowBound=0, upBound=max(forecast, 0.001)
RenewableVarBounds(h, solar, wind) ==
    /\ 0 <= h.solar_used /\ 1000 * h.solar_used <= Max2(1000 * solar, 1)
    /\ 0 <= h.wind_used /\ 1000 * h.wind_used <= Max2(1000 * wind, 1)

\* mutant: an objective without the renewable credit
HourCostNoCredit10(h, tariff) == 10 * h.grid_buy * tariff

\* objective term of hour t, times 10:
\* grid_buy*tariff - (solar_used + wind_used)*tariff*renewable_credit
HourCost10(h, tariff) ==
    10 * h.grid_buy * tariff
      - (h.solar_used + h.wind_used) * tariff * renewable_credit10

\* mutant: the discharge is counted without the efficiency loss
EnergyBalanceLossless(h, load) ==
    10 * (h.grid_buy + h.solar_used + h.wind_used)
      + 10 * h.battery_discharge
      - 10 * h.battery_charge >= 10 * load

\* 1. energy balance (times 10)
EnergyBalance(h, load) ==
    10 * (h.grid_buy + h.solar_used + h.wind_used)
      + battery_efficiency10 * h.battery_discharge
      - 10 * h.battery_charge >= 10 * load

\* 2. soc[0] == capacity * initial_soc   (initial_soc10 = 10*initial_soc)
SocInitial(battery_capacity, initial_soc10) == battery_capacity * initial_soc10

\* mutant: the charge enters the soc without the efficiency loss
SocNextLossless(soc10, h) ==
    soc10 + 10 * h.battery_charge - 10 * h.battery_discharge

\* 2. soc[t+1] == soc[t] + charge*efficiency - discharge   (times 10)
SocNext(soc10, h) ==
    soc10 + battery_efficiency10 * h.battery_charge - 10 * h.battery_discharge

\* 3. renewable use does not exceed max(forecast, 0)
RenewableLimit(h, solar, wind) ==
    /\ h.solar_used <= Max2(solar, 0)
    /\ h.wind_used <= Max2(wind, 0)

\* 4. big-M exclusivity, M = capacity * 2, charge_flag binary
BigM(battery_capacity) == battery_capacity * 2

\* mutant: both big-M constraints use charge_flag, none uses 1 - charge_flag
ChargeExclusiveSameFlag(h, battery_capacity) ==
    /\ h.charge_flag \in {0, 1}
    /\ h.battery_charge <= BigM(battery_capacity) * h.charge_flag
    /\ h.battery_discharge <= BigM(battery_capacity) * h.charge_flag

ChargeExclusive(h, battery_capacity) ==
    /\ h.charge_flag \in {0, 1}
    /\ h.battery_charge <= BigM(battery_capacity) * h.charge_flag
    /\ h.battery_discharge <= BigM(battery_capacity) * (1 - h.charge_flag)

\* mutant: peak hours are capped at half the contract capacity
PeakShavingHalfContract(h, tariff, max_contract) ==
    IsPeakTariff(tariff) => 10 * h.grid_buy <= 5 * max_contract

\* mutant: peak hours are capped at the whole contract capacity
PeakShavingFullContract(h, tariff, max_contract) ==
    IsPeakTariff(tariff) => h.grid_buy <= max_contract

\* 5. peak shaving: grid_buy <= max_contract*0.8 in peak hours (times 10)
PeakShaving(h, tariff, max_contract) ==
    IsPeakTariff(tariff) => 10 * h.grid_buy <= peak_limit_ratio10 * max_contract

\* ------------------------------------------------------- the MILP solve
\* lattice box from which the solver's variable values are drawn
LatticePower == 10
LatticeRate == 5
LatticeRenewable == 5

BatteryBox ==
    [battery_charge : 0..LatticeRate, battery_discharge : 0..LatticeRate,
     charge_flag : {0, 1}]
GridBox == [grid_buy : 0..LatticePower]
RenewableBox == [solar_used : 0..LatticeRenewable, wind_used : 0..LatticeRenewable]

\* the battery part of an hour: bounds of charge/discharge and constraint 4
BatteryChoices(cfg) ==
    {b \in BatteryBox : /\ BatteryRateBounds(b, cfg.battery_capacity)
                        /\ ChargeExclusive(b, cfg.battery_capacity)}

\* the grid part of hour t: bounds of grid_buy and constraint 5
GridChoices(cfg, inp, t) ==
    {g \in GridBox : /\ GridBuyBounds(g, cfg.max_contract)
                     /\ PeakShaving(g, inp.tariffs[t], cfg.max_contract)}

\* the renewable part of hour t: bounds of solar/wind_used and constraint 3
RenewableChoices(inp, t) ==
    {r \in RenewableBox : /\ RenewableVarBounds(r, inp.solar[t], inp.wind[t])
                          /\ RenewableLimit(r, inp.solar[t], inp.wind[t])}

HourOf(g, b, r) ==
    [grid_buy |-> g.grid_buy, battery_charge |-> b.battery_charge,
     battery_discharge |-> b.battery_discharge, solar_used |-> r.solar_used,
     wind_used |-> r.wind_used, charge_flag |-> b.charge_flag]

\* the values of hour t with battery part b that satisfy every bound and
\* constraint mentioning hour t only (constraint 1 joins the three parts)
HourFeasible(G, R, inp, t, b) ==
    {h \in {HourOf(g, b, r) : g \in G, r \in R}
        : EnergyBalance(h, inp.load[t])}

\* grid_buy, solar_used and wind_used of hour t occur in no constraint of
\* another hour, so a minimiser of the objective takes, for the battery part
\* it has chosen, values of least cost for that hour
HourCheapest(G, R, inp, t, b) ==
    LET H == HourFeasible(G, R, inp, t, b)
        least == SetMin({HourCost10(h, inp.tariffs[t]) : h \in H})
    IN  IF H = {} THEN {}
        ELSE {h \in H : HourCost10(h, inp.tariffs[t]) = least}

HourChoices(cfg, inp, t) ==
    LET G == GridChoices(cfg, inp, t)
        R == RenewableChoices(inp, t)
    IN  UNION {HourCheapest(G, R, inp, t, b) : b \in BatteryChoices(cfg)}

\* assignments of hours 1..t together with the soc values the equalities
\* soc[0] == ... and soc[t+1] == ... determine, every soc within its bounds
RECURSIVE Partial(_, _, _)
Partial(cfg, inp, t) ==
    IF t = 0
    THEN LET s0 == SocInitial(cfg.battery_capacity, inp.initial_soc10)
         IN  IF SocBounds(s0, cfg.battery_capacity)
             THEN {[hours |-> <<>>, soc10 |-> <<s0>>]}
             ELSE {}
    ELSE LET prev == Partial(cfg, inp, t - 1)
             here == IF prev = {} THEN {} ELSE HourChoices(cfg, inp, t)
         IN  {x \in {[hours |-> Append(p.hours, h),
                      soc10 |-> Append(p.soc10, SocNext(p.soc10[t], h))]
                     : p \in prev, h \in here}
                : SocBounds(x.soc10[t + 1], cfg.battery_capacity)}

\* the feasible points of prob (T = len(load_forecast) hours) that can be
\* minimisers: empty exactly when prob is infeasible on the lattice
Feasible(cfg, inp) == Partial(cfg, inp, Len(inp.load))

RECURSIVE Cost10From(_, _, _)
Cost10From(hours, tariffs, t) ==
    IF t > Len(hours) THEN 0
    ELSE HourCost10(hours[t], tariffs[t]) + Cost10From(hours, tariffs, t + 1)

\* pulp.value(prob.objective), times 10
Objective10(sol, inp) == Cost10From(sol.hours, inp.tariffs, 1)

NoSolution == [hours |-> <<>>, soc10 |-> <<>>]

\* a solve that reports "Optimal" for any feasible point it has reached
SolverOutcomesAnyFeasible(cfg, inp) ==
    LET F == Feasible(cfg, inp)
    IN  {[status |-> "Not Solved", values |-> NoSolution]}
          \cup (IF F = {}
                THEN {[status |-> "Infeasible", values |-> NoSolution]}
                ELSE {[status |-> "Optimal", values |-> s] : s \in F})

\* prob.solve(PULP_CBC_CMD(msg=0, timeLimit=60)); pulp.LpStatus[prob.status]:
\* "Optimal" with a minimiser of the objective over the feasible region,
\* "Infeasible" when the region is empty, "Not Solved" when the time limit
\* stops the search.  Every variable is bounded, so "Unbounded" cannot occur.
SolverOutcomes(cfg, inp) ==
    LET F == Feasible(cfg, inp)
        best == SetMin({Objective10(s, inp) : s \in F})
    IN  {[status |-> "Not Solved", values |-> NoSolution]}
          \cup (IF F = {}
                THEN {[status |-> "Infeasible", values |-> NoSolution]}
                ELSE {[status |-> "Optimal", values |-> s]
                        : s \in {x \in F : Objective10(x, inp) = best}})

\* --------------------------------------------------------- result shapes
\* An outcome of a call is either a returned OptimizationResult or a raised
\* exception.  Percentages are kept as an exact fraction <<num, den>>.
NoResult ==
    [status |-> "None", total_cost10 |-> 0, baseline_cost10 |-> 0,
     savings10 |-> 0, savings_percent |-> <<0, 1>>,
     battery_schedule |-> <<>>, grid_consumption |-> <<>>,
     solar_utilization |-> <<>>, peak_reduction |-> <<0, 1>>,
     recommendations |-> <<>>]

Returned(res) == [kind |-> "returned", exc |-> "None", result |-> res]
Raised(e) == [kind |-> "raised", exc |-> e, result |-> NoResult]

\* ------------------------------------------------------ _baseline_result
\* numpy broadcasting of two 1-d arrays: the result length, -1 = ValueError
BroadcastLen(a, b) ==
    IF a = b THEN a ELSE IF a = 1 THEN b ELSE IF b = 1 THEN a ELSE -1

\* element i of an array taking part in a broadcast
Elem(s, i) == IF Len(s) = 1 THEN s[1] ELSE s[i]

\* np.maximum(load_forecast - solar_forecast - wind_forecast, 0)
NetLoadLen(inp) ==
    LET l1 == BroadcastLen(Len(inp.load), Len(inp.solar))
    IN  IF l1 = -1 THEN -1 ELSE BroadcastLen(l1, Len(inp.wind))

NetLoad(inp) ==
    [i \in 1..NetLoadLen(inp) |->
        Max2(Elem(inp.load, i) - Elem(inp.solar, i) - Elem(inp.wind, i), 0)]

\* list(np.minimum(solar_forecast, load_forecast))
SolarMin(inp) ==
    [i \in 1..BroadcastLen(Len(inp.solar), Len(inp.load)) |->
        Min2(Elem(inp.solar, i), Elem(inp.load, i))]

RECURSIVE DotFrom(_, _, _, _)
\* sum(a[t] * b[t] for t in range(T)), from index t on
DotFrom(a, b, T, t) ==
    IF t > T THEN 0 ELSE a[t] * b[t] + DotFrom(a, b, T, t + 1)

\* a baseline whose baseline_cost is taken from the gross load, as on the
\* Optimal path, while total_cost is taken from the net load
baseline_result_gross_cost(inp) ==
    LET T == Len(inp.load)
    IN  IF NetLoadLen(inp) = -1 THEN Raised("ValueError")
        ELSE IF NetLoadLen(inp) < T \/ Len(inp.tariffs) < T
             THEN Raised("IndexError")
        ELSE LET net_load == NetLoad(inp)
             IN  Returned(
                   [status |-> "Baseline",
                    total_cost10 |-> 10 * DotFrom(net_load, inp.tariffs, T, 1),
                    baseline_cost10 |-> 10 * DotFrom(inp.load, inp.tariffs, T, 1),
                    savings10 |-> 0,
                    savings_percent |-> <<0, 1>>,
                    battery_schedule |-> [t \in 1..T |-> 0],
                    grid_consumption |-> net_load,
                    solar_utilization |-> SolarMin(inp),
                    peak_reduction |-> <<0, 1>>,
                    recommendations |-> <<"install_storage">>])

baseline_result(inp) ==
    LET T == Len(inp.load)
    IN  IF NetLoadLen(inp) = -1 THEN Raised("ValueError")
        ELSE IF NetLoadLen(inp) < T \/ Len(inp.tariffs) < T
             THEN Raised("IndexError")
        ELSE LET net_load == NetLoad(inp)
                 baseline_cost10 == 10 * DotFrom(net_load, inp.tariffs, T, 1)
             IN  Returned(
                   [status |-> "Baseline",
                    total_cost10 |-> baseline_cost10,
                    baseline_cost10 |-> baseline_cost10,
                    savings10 |-> 0,
                    savings_percent |-> <<0, 1>>,
                    battery_schedule |-> [t \in 1..T |-> 0],
                    grid_consumption |-> net_load,
                    solar_utilization |-> SolarMin(inp),
                    peak_reduction |-> <<0, 1>>,
                    recommendations |-> <<"install_storage">>])

\* ------------------------------------------------ _generate_recommendations
RECURSIVE SumOver(_, _)
\* sum(f[i] for i in S)
SumOver(f, S) ==
    IF S = {} THEN 0
    ELSE LET i == CHOOSE j \in S : TRUE IN f[i] + SumOver(f, S \ {i})

PeakHours(tariffs) == {i \in 1..Len(tariffs) : IsPeakTariff(tariffs[i])}
OffPeakHours(tariffs) == {i \in 1..Len(tariffs) : IsOffPeakTariff(tariffs[i])}

\* rule 1: peak hours exist and peak_grid < peak_load * 0.8
PeakPeriodRule(load, grid, tariffs) ==
    /\ PeakHours(tariffs) # {}
    /\ 10 * SumOver(grid, PeakHours(tariffs))
         < 8 * SumOver(load, PeakHours(tariffs))

\* rule 2: total_discharge = sum(max(-b, 0) for b in battery) > 0
BatteryRule(battery) ==
    SumOver([i \in 1..Len(battery) |-> Max2(-battery[i], 0)],
            1..Len(battery)) > 0

\* rule 3: solar_available = sum(solar) > 0; utilization from min(s, l)
SolarAvailable(solar) == SeqSum(solar)
SolarUsedOfForecast(solar, load) ==
    SumOver([i \in 1..Min2(Len(solar), Len(load)) |-> Min2(solar[i], load[i])],
            1..Min2(Len(solar), Len(load)))
SolarTag(solar, load) ==
    IF 100 * SolarUsedOfForecast(solar, load) < 80 * SolarAvailable(solar)
    THEN "solar_low" ELSE "solar_good"

\* rule 4: peak_reduction > 5
PeakCutRule(peak_reduction) == peak_reduction[1] > 5 * peak_reduction[2]

\* rule 5: off-peak hours exist and some charge happens in them
OffPeakChargeRule(battery, tariffs) ==
    /\ OffPeakHours(tariffs) # {}
    /\ SumOver([i \in 1..Len(battery) |-> Max2(battery[i], 0)],
               {h \in OffPeakHours(tariffs) : h <= Len(battery)}) > 0

\* a rule set that returns the list as the rules left it, without the default
generate_recommendations_no_default(load, solar, grid, battery, tariffs, peak_reduction) ==
    (IF PeakPeriodRule(load, grid, tariffs) THEN <<"peak_period">> ELSE <<>>)
    \o (IF BatteryRule(battery) THEN <<"battery">> ELSE <<>>)
    \o (IF SolarAvailable(solar) > 0 THEN <<SolarTag(solar, load)>> ELSE <<>>)
    \o (IF PeakCutRule(peak_reduction) THEN <<"peak_cut">> ELSE <<>>)
    \o (IF OffPeakChargeRule(battery, tariffs)
          THEN <<"off_peak_charge">> ELSE <<>>)

generate_recommendations(load, solar, grid, battery, tariffs, peak_reduction) ==
    LET recs ==
          (IF PeakPeriodRule(load, grid, tariffs)
             THEN <<"peak_period">> ELSE <<>>)
          \o (IF BatteryRule(battery) THEN <<"battery">> ELSE <<>>)
          \o (IF SolarAvailable(solar) > 0
                THEN <<SolarTag(solar, load)>> ELSE <<>>)
          \o (IF PeakCutRule(peak_reduction) THEN <<"peak_cut">> ELSE <<>>)
          \o (IF OffPeakChargeRule(battery, tariffs)
                THEN <<"off_peak_charge">> ELSE <<>>)
    IN  IF recs # <<>> THEN recs ELSE <<"no_special">>

\* ----------------------------------------- optimize, after an Optimal solve
\* extraction of the schedules, costs, peak reduction and recommendations
OptimalResult(cfg, inp, sol) ==
    LET T == Len(inp.load)
        grid_schedule == [t \in 1..T |-> sol.hours[t].grid_buy]
        solar_schedule == [t \in 1..T |-> sol.hours[t].solar_used]
        battery_schedule ==
            [t \in 1..T |-> sol.hours[t].battery_charge
                              - sol.hours[t].battery_discharge]
        total_cost10 == Objective10(sol, inp)
        baseline_cost10 == 10 * DotFrom(inp.load, inp.tariffs, T, 1)
        savings10 == baseline_cost10 - total_cost10
        savings_percent ==
            IF baseline_cost10 > 0 THEN <<savings10 * 100, baseline_cost10>>
            ELSE <<0, 1>>
        baseline_peak == SeqMax(inp.load)
        optimized_peak == SeqMax(grid_schedule)
        peak_reduction ==
            IF baseline_peak > 0
            THEN <<(baseline_peak - optimized_peak) * 100, baseline_peak>>
            ELSE <<0, 1>>
    IN  IF cfg.battery_capacity = 0 THEN Raised("ZeroDivisionError")
        ELSE IF T = 0 THEN Raised("ValueError")
        ELSE IF \E h \in PeakHours(inp.tariffs) : h > T
             THEN Raised("IndexError")
        ELSE Returned(
               [status |-> "Optimal",
                total_cost10 |-> total_cost10,
                baseline_cost10 |-> baseline_cost10,
                savings10 |-> savings10,
                savings_percent |-> savings_percent,
                battery_schedule |-> battery_schedule,
                grid_consumption |-> grid_schedule,
                solar_utilization |-> solar_schedule,
                peak_reduction |-> peak_reduction,
                recommendations |->
                    generate_recommendations(inp.load, inp.solar,
                        grid_schedule, battery_schedule, inp.tariffs,
                        peak_reduction)])

\* the variable-building loops index solar_forecast[t], wind_forecast[t] and
\* tariffs[t] for every t in range(T)
BuildRaises(inp) ==
    \/ Len(inp.solar) < Len(inp.load)
    \/ Len(inp.wind) < Len(inp.load)
    \/ Len(inp.tariffs) < Len(inp.load)

\* mutant: an Infeasible status is raised instead of degraded
FinishOutcomeRaisesInfeasible(cfg, inp, so) ==
    IF so.status = "Infeasible" THEN Raised("PulpSolverError")
    ELSE IF so.status # "Optimal" THEN baseline_result(inp)
    ELSE OptimalResult(cfg, inp, so.values)

\* the step of optimize after the solve: fallback or extraction
FinishOutcome(cfg, inp, so) ==
    IF so.status # "Optimal" THEN baseline_result(inp)
    ELSE OptimalResult(cfg, inp, so.values)

\* every outcome a whole optimize() call can have
OptimizeOutcomes(cfg, inp, pulp) ==
    IF ~pulp THEN {baseline_result(inp)}
    ELSE IF BuildRaises(inp) THEN {Raised("IndexError")}
    ELSE {FinishOutcome(cfg, inp, so) : so \in SolverOutcomes(cfg, inp)}

\* ------------------------------------------------------------- the state
VARIABLES
    battery_capacity,   \* TOUOptimizer.battery_capacity
    max_contract,       \* TOUOptimizer.max_contract
    PULP_AVAILABLE,     \* module flag set by the import of pulp
    pc,                 \* position of the optimize() call in progress
    call,               \* its arguments
    solver,             \* status and variable values left by prob.solve
    outcome,            \* what the call returned or raised
    nSolve,             \* solve attempts of the call
    nBaseline,          \* _baseline_result computations of the call
    sim_pc,             \* position of the simulate_scenarios call
    forecast_df,        \* its forecast_df argument
    scenarios,          \* its scenarios argument
    sim_i,              \* scenarios already iterated over
    original_capacity,  \* local of the loop body
    original_contract,  \* local of the loop body
    opt_result,         \* local of the loop body
    results,            \* the list being built
    sim_exc,            \* the exception that left simulate_scenarios
    sim_entry,          \* the configuration when simulate_scenarios was called
    svc,                \* the OptimizationService.optimize calls, by caller
    svc_defaults,       \* the configuration the optimizer was constructed with
    tasks,              \* the committed rows of table task_status, by task
    plans,              \* the committed rows of table optimization_plans
    queue,              \* background jobs added and not yet started
    job,                \* the run_optimization_task call in progress
    poll                \* a client polling a task and fetching its plan

cfgVars == <<battery_capacity, max_contract, PULP_AVAILABLE>>
optVars == <<pc, call, solver, outcome, nSolve, nBaseline>>
simVars == <<sim_pc, forecast_df, scenarios, sim_i, original_capacity,
             original_contract, opt_result, results, sim_exc, sim_entry>>
svcVars == <<svc, svc_defaults>>
taskVars == <<tasks, plans, queue, job, poll>>
vars == <<cfgVars, optVars, simVars, svcVars, taskVars>>

Config == [battery_capacity |-> battery_capacity, max_contract |-> max_contract]

\* ------------------------------------------------------ inputs of the model
\* settings.battery_capacity_kwh / max_contract_capacity_kw come from the
\* environment; the lattice unit is chosen so that these are small
CapacityValues == {0, 6}
ContractValues == {0, 5}
InitialSocValues == {5, 10}

\* hourly forecast points (load, solar, wind, tariff)
HourInputs ==
    { [load |-> 2, solar |-> 0, wind |-> 0, tariff |-> 2],
      [load |-> 4, solar |-> 0, wind |-> 0, tariff |-> 9],
      [load |-> 5, solar |-> 0, wind |-> 0, tariff |-> 9],
      [load |-> 3, solar |-> 2, wind |-> 1, tariff |-> 5],
      [load |-> 1, solar |-> 3, wind |-> 0, tariff |-> 5],
      [load |-> 6, solar |-> 0, wind |-> 0, tariff |-> 2],
      [load |-> 0, solar |-> 0, wind |-> 0, tariff |-> 5] }

RECURSIVE SeqsUpTo(_, _)
SeqsUpTo(S, n) ==
    IF n = 0 THEN {<<>>}
    ELSE LET shorter == SeqsUpTo(S, n - 1)
         IN  shorter \cup {Append(q, x) : q \in {r \in shorter : Len(r) = n - 1},
                                          x \in S}

Column(points, f) ==
    [i \in 1..Len(points) |->
        CASE f = "load" -> points[i].load
          [] f = "solar" -> points[i].solar
          [] f = "wind" -> points[i].wind
          [] OTHER -> points[i].tariff]

\* arrays of equal length, or a solar array one longer or one shorter
Arrays(points, shape) ==
    LET solar == Column(points, "solar")
    IN  [load |-> Column(points, "load"),
         solar |-> CASE shape = "longer" -> Append(solar, 1)
                     [] shape = "shorter" -> SubSeq(solar, 1, Len(solar) - 1)
                     [] OTHER -> solar,
         wind |-> Column(points, "wind"),
         tariffs |-> Column(points, "tariff")]

OptimizeInputs ==
    { [load |-> a.load, solar |-> a.solar, wind |-> a.wind,
       tariffs |-> a.tariffs, initial_soc10 |-> s]
        : a \in {Arrays(q, "equal") : q \in SeqsUpTo(HourInputs, MaxT)},
          s \in InitialSocValues }
    \cup
    { [load |-> a.load, solar |-> a.solar, wind |-> a.wind,
       tariffs |-> a.tariffs, initial_soc10 |-> 5]
        : a \in {Arrays(q, "longer") : q \in SeqsUpTo(HourInputs, MaxT)}
                 \cup {Arrays(q, "shorter")
                         : q \in SeqsUpTo(HourInputs, MaxT) \ {<<>>}} }

NoCall == [load |-> <<>>, solar |-> <<>>, wind |-> <<>>, tariffs |-> <<>>,
           initial_soc10 |-> 0]
NoSolve == [status |-> "None", values |-> NoSolution]
NoOutcome == [kind |-> "none", exc |-> "None", result |-> NoResult]

\* an optional value: a dict key that may be missing, an argument that may
\* be None
None == [has |-> FALSE, val |-> 0]
Some(v) == [has |-> TRUE, val |-> v]
\* dict.get(key, default)
Get(opt, default) == IF opt.has THEN opt.val ELSE default

NoFrame == [load_mw |-> <<>>, solar_mw |-> <<>>, wind_mw |-> <<>>,
            tariff |-> <<>>]

\* no simulate_scenarios call is in progress
SimIdle ==
    /\ sim_pc = "idle"
    /\ forecast_df = NoFrame
    /\ scenarios = <<>>
    /\ sim_i = 0
    /\ original_capacity = 0
    /\ original_contract = 0
    /\ opt_result = NoOutcome
    /\ results = <<>>
    /\ sim_exc = "None"
    /\ sim_entry = [battery_capacity |-> 0, max_contract |-> 0]

Calls == {1, 2}

NoServiceCall ==
    [pc |-> "idle", forecast_df |-> NoFrame, initial_soc10 |-> 0,
     battery_capacity_kwh |-> None, max_contract_kw |-> None,
     original_capacity |-> 0, original_contract |-> 0,
     outcome |-> NoOutcome]

\* no OptimizationService.optimize call is in progress
SvcIdle ==
    /\ svc = [c \in Calls |-> NoServiceCall]
    /\ svc_defaults = Config

\* ------------------------------------------------ task rows, plans, jobs
MaxTasks == 2
TaskIds == 1..MaxTasks

\* task.result_json: NULL, or {"plan_id": ..., "status": ...}
NoResultJson == [has |-> FALSE, plan_id |-> 0, status |-> "None"]

\* a row of task_status (status, progress, result_json, error_message; the
\* string "None" stands for NULL), and the absence of a row
NoRow == [status |-> "none", progress |-> 0, result_json |-> NoResultJson,
          error_message |-> "None"]

\* TaskStatus(task_id=..., task_type="optimize", status="pending", progress=0.0)
PendingRow == [status |-> "pending", progress |-> 0,
               result_json |-> NoResultJson, error_message |-> "None"]

\* the arguments and locals of run_optimization_task; task is "unbound"
\* until the assignment of the lookup has happened, and row holds the field
\* values of the session's task object
NoJob ==
    [pc |-> "idle", task_id |-> 0, forecast_id |-> None,
     battery_capacity_kwh |-> None, max_contract_kw |-> None,
     task |-> "unbound", row |-> NoRow, forecast_df |-> NoFrame,
     opt_result |-> NoOutcome,
     plan_id |-> 0, exc |-> "None", raised_at |-> "None",
     entry |-> [battery_capacity |-> 0, max_contract |-> 0]]

\* a client that polls GET /optimize/{task_id} and then GET /plan/{plan_id}
NoPoll == [pc |-> "idle", task_id |-> 0, status |-> "None", plan_id |-> 0,
           response |-> 0]

\* no task exists, no job is queued or running
TaskIdle ==
    /\ tasks = [i \in TaskIds |-> NoRow]
    /\ plans = <<>>
    /\ queue = <<>>
    /\ job = NoJob
    /\ poll = NoPoll

\* ----------------------------------------------- TOUOptimizer.optimize
InitOpt ==
    /\ battery_capacity \in CapacityValues
    /\ max_contract \in ContractValues
    /\ PULP_AVAILABLE \in BOOLEAN
    /\ pc = "idle"
    /\ call = NoCall
    /\ solver = NoSolve
    /\ outcome = NoOutcome
    /\ nSolve = 0
    /\ nBaseline = 0
    /\ SimIdle
    /\ SvcIdle
    /\ TaskIdle

PcAfter(o) == IF o.kind = "returned" THEN "done" ELSE "raised"

\* a caller invokes optimize(load, solar, wind, tariffs, initial_soc)
OptCall(inp) ==
    /\ pc = "idle"
    /\ pc' = "entry"
    /\ call' = inp
    /\ solver' = NoSolve
    /\ outcome' = NoOutcome
    /\ nSolve' = 0
    /\ nBaseline' = 0
    /\ UNCHANGED <<cfgVars, simVars, svcVars, taskVars>>

\* if not PULP_AVAILABLE: return self._baseline_result(...)
OptNoPulp ==
    /\ pc = "entry"
    /\ ~PULP_AVAILABLE
    /\ outcome' = baseline_result(call)
    /\ nBaseline' = nBaseline + 1
    /\ pc' = PcAfter(outcome')
    /\ UNCHANGED <<cfgVars, simVars, svcVars, taskVars, call, solver, nSolve>>

\* building of prob: variables, objective, constraints
OptBuild ==
    /\ pc = "entry"
    /\ PULP_AVAILABLE
    /\ IF BuildRaises(call)
       THEN outcome' = Raised("IndexError") /\ pc' = "raised"
       ELSE outcome' = outcome /\ pc' = "solve"
    /\ UNCHANGED <<cfgVars, simVars, svcVars, taskVars, call, solver, nSolve, nBaseline>>

\* prob.solve(solver); status = pulp.LpStatus[prob.status]
OptSolve ==
    /\ pc = "solve"
    /\ \E so \in SolverOutcomes(Config, call) : solver' = so
    /\ nSolve' = nSolve + 1
    /\ pc' = "solved"
    /\ UNCHANGED <<cfgVars, simVars, svcVars, taskVars, call, outcome, nBaseline>>

\* a finish that answers a first non-Optimal status by solving again
OptFinishRetry ==
    /\ pc = "solved"
    /\ IF solver.status # "Optimal" /\ nSolve < 2
       THEN /\ pc' = "solve"
            /\ UNCHANGED <<outcome, nBaseline>>
       ELSE /\ outcome' = FinishOutcome(Config, call, solver)
            /\ nBaseline' = IF solver.status # "Optimal" THEN nBaseline + 1
                            ELSE nBaseline
            /\ pc' = PcAfter(outcome')
    /\ UNCHANGED <<cfgVars, simVars, svcVars, taskVars, call, solver, nSolve>>

\* if status != 'Optimal': return self._baseline_result(...); otherwise the
\* extraction of the result of the Optimal solve
OptFinish ==
    /\ pc = "solved"
    /\ outcome' = FinishOutcome(Config, call, solver)
    /\ nBaseline' = IF solver.status # "Optimal" THEN nBaseline + 1
                    ELSE nBaseline
    /\ pc' = PcAfter(outcome')
    /\ UNCHANGED <<cfgVars, simVars, svcVars, taskVars, call, solver, nSolve>>

\* the caller has taken the result or the exception; the optimizer is idle
OptReturn ==
    /\ pc \in {"done", "raised"}
    /\ pc' = "idle"
    /\ call' = NoCall
    /\ solver' = NoSolve
    /\ outcome' = NoOutcome
    /\ nSolve' = 0
    /\ nBaseline' = 0
    /\ UNCHANGED <<cfgVars, simVars, svcVars, taskVars>>

NextOpt ==
    \/ \E inp \in OptimizeInputs : OptCall(inp)
    \/ OptNoPulp
    \/ OptBuild
    \/ OptSolve
    \/ OptFinish
    \/ OptReturn

SpecOpt == InitOpt /\ [][NextOpt]_vars

\* ------------------------------------- optimize on the spec's three cases
\* The lattice unit is 10 kW here: battery_capacity 100 kWh = 10, max_contract
\* 500 kW = 50, and a cost kept in tenths is a cost in NTD.
Case1 == [load |-> <<10, 10, 10>>, solar |-> <<0, 0, 0>>, wind |-> <<0, 0, 0>>,
          tariffs |-> <<5, 5, 5>>, initial_soc10 |-> 5]
Case2 == [load |-> <<10, 10>>, solar |-> <<5, 0>>, wind |-> <<0, 0>>,
          tariffs |-> <<2, 5>>, initial_soc10 |-> 5]
Case3 == [load |-> <<5>>, solar |-> <<0>>, wind |-> <<0>>,
          tariffs |-> <<5>>, initial_soc10 |-> 5]
CaseInputs == {Case1, Case2, Case3}

InitCases ==
    /\ battery_capacity \in {0, 10}
    /\ max_contract \in {0, 50}
    /\ PULP_AVAILABLE \in BOOLEAN
    /\ pc = "idle"
    /\ call = NoCall
    /\ solver = NoSolve
    /\ outcome = NoOutcome
    /\ nSolve = 0
    /\ nBaseline = 0
    /\ SimIdle
    /\ SvcIdle
    /\ TaskIdle

NextCases ==
    \/ \E inp \in CaseInputs : OptCall(inp)
    \/ OptNoPulp
    \/ OptBuild
    \/ OptSolve
    \/ OptFinish
    \/ OptReturn

SpecCases == InitCases /\ [][NextCases]_vars

\* ------------------------------- optimize with the battery at its limits
\* initial_soc 0.0, min_soc, max_soc and 1.0, on arrays of one length
SocLimitValues == {0, 1, 9, 10}

SocHourInputs ==
    { [load |-> 2, solar |-> 0, wind |-> 0, tariff |-> 8],
      [load |-> 5, solar |-> 0, wind |-> 0, tariff |-> 9],
      [load |-> 4, solar |-> 0, wind |-> 0, tariff |-> 9],
      [load |-> 3, solar |-> 2, wind |-> 1, tariff |-> 5] }

SocInputs ==
    { [load |-> a.load, solar |-> a.solar, wind |-> a.wind,
       tariffs |-> a.tariffs, initial_soc10 |-> s]
        : a \in {Arrays(q, "equal") : q \in SeqsUpTo(SocHourInputs, MaxT) \ {<<>>}},
          s \in SocLimitValues }

NextSoc ==
    \/ \E inp \in SocInputs : OptCall(inp)
    \/ OptNoPulp
    \/ OptBuild
    \/ OptSolve
    \/ OptFinish
    \/ OptReturn

SpecSoc == InitOpt /\ [][NextSoc]_vars

\* ------------------------------------------ TOUOptimizer.optimize_schedule
\* load_max_mw = np.max(load_raw) if np.max(load_raw) > 0 else 1
LoadMaxMw(df) == IF SeqMax(df.load_mw) > 0 THEN SeqMax(df.load_mw) ELSE 1

\* a scaling whose target peak is the whole contract capacity
ScaleToKwFullContract(x, df, cfg) ==
    (x * 1000 * 10 * cfg.max_contract) \div (10 * LoadMaxMw(df) * 1000)

\* x * 1000 * scale_factor with scale_factor = max_contract*0.8 /
\* (load_max_mw*1000); the frames of the model make the division exact
ScaleToKw(x, df, cfg) ==
    (x * 1000 * target_peak_ratio10 * cfg.max_contract)
        \div (10 * LoadMaxMw(df) * 1000)

ScaledInput(cfg, df, initial_soc10) ==
    [load |-> [t \in 1..Len(df.load_mw) |-> ScaleToKw(df.load_mw[t], df, cfg)],
     solar |-> [t \in 1..Len(df.solar_mw) |-> ScaleToKw(df.solar_mw[t], df, cfg)],
     wind |-> [t \in 1..Len(df.wind_mw) |-> ScaleToKw(df.wind_mw[t], df, cfg)],
     tariffs |-> df.tariff,
     initial_soc10 |-> initial_soc10]

\* every outcome of optimize_schedule(forecast_df, initial_soc): np.max of an
\* empty column raises ValueError, otherwise the outcome of optimize on the
\* scaled series
OptimizeScheduleOutcomes(cfg, df, initial_soc10, pulp) ==
    IF Len(df.load_mw) = 0 THEN {Raised("ValueError")}
    ELSE OptimizeOutcomes(cfg, ScaledInput(cfg, df, initial_soc10), pulp)

\* forecast frames (columns predicted_load_mw, predicted_solar_mw,
\* predicted_wind_mw, tariff)
ForecastFrames ==
    { NoFrame,
      [load_mw |-> <<4>>, solar_mw |-> <<0>>, wind_mw |-> <<0>>,
       tariff |-> <<5>>],
      [load_mw |-> <<4, 2>>, solar_mw |-> <<0, 1>>, wind_mw |-> <<0, 0>>,
       tariff |-> <<9, 2>>] }

\* optimize_schedule step by step: the scaling of the frame, then optimize
ScheduleFrames ==
    ForecastFrames
      \cup { [load_mw |-> <<0, 0>>, solar_mw |-> <<1, 0>>, wind_mw |-> <<0, 0>>,
              tariff |-> <<5, 2>>],
             [load_mw |-> <<2, 1>>, solar_mw |-> <<1, 0>>, wind_mw |-> <<0, 1>>,
              tariff |-> <<5, 5>>] }

\* a caller invokes optimize_schedule(forecast_df, initial_soc): the columns
\* are read and scaled (np.max of an empty column raises ValueError) and
\* optimize is entered with the scaled series
SchedCall(df, initial_soc10) ==
    /\ pc = "idle"
    /\ sim_pc = "idle"
    /\ forecast_df' = df
    /\ IF Len(df.load_mw) = 0
       THEN /\ call' = NoCall
            /\ outcome' = Raised("ValueError")
            /\ pc' = "raised"
       ELSE /\ call' = ScaledInput(Config, df, initial_soc10)
            /\ outcome' = NoOutcome
            /\ pc' = "entry"
    /\ solver' = NoSolve
    /\ nSolve' = 0
    /\ nBaseline' = 0
    /\ UNCHANGED <<cfgVars, svcVars, taskVars, sim_pc, scenarios, sim_i, original_capacity,
                   original_contract, opt_result, results, sim_exc, sim_entry>>

\* the schedule frame and the summary are built from the result (the columns
\* of one frame have one length, so the assignments cannot fail) and the
\* caller takes the dict, or the exception
SchedReturn ==
    /\ pc \in {"done", "raised"}
    /\ pc' = "idle"
    /\ forecast_df' = NoFrame
    /\ call' = NoCall
    /\ solver' = NoSolve
    /\ outcome' = NoOutcome
    /\ nSolve' = 0
    /\ nBaseline' = 0
    /\ UNCHANGED <<cfgVars, svcVars, taskVars, sim_pc, scenarios, sim_i, original_capacity,
                   original_contract, opt_result, results, sim_exc, sim_entry>>

NextSched ==
    \/ \E df \in ScheduleFrames, s \in InitialSocValues : SchedCall(df, s)
    \/ OptNoPulp
    \/ OptBuild
    \/ OptSolve
    \/ OptFinish
    \/ SchedReturn

SpecSched == InitOpt /\ [][NextSched]_vars

\* ----------------------------------------- TOUOptimizer.simulate_scenarios
ScenarioValues ==
    { [name |-> "no_battery", battery_capacity |-> Some(0),
       max_contract |-> None, initial_soc |-> None],
      [name |-> "upgrade", battery_capacity |-> Some(6),
       max_contract |-> Some(5), initial_soc |-> None],
      [name |-> "", battery_capacity |-> None,
       max_contract |-> Some(0), initial_soc |-> Some(10)],
      [name |-> "as_is", battery_capacity |-> None,
       max_contract |-> None, initial_soc |-> None] }

\* scenario.get('name', f'Scenario_{i + 1}'); "" stands for a missing name
ScenarioName(scenario, i) ==
    IF scenario.name # "" THEN [given |-> scenario.name, number |-> 0]
    ELSE [given |-> "Scenario_", number |-> i]

InitSim ==
    /\ battery_capacity \in CapacityValues
    /\ max_contract \in ContractValues
    /\ PULP_AVAILABLE \in BOOLEAN
    /\ pc = "idle"
    /\ call = NoCall
    /\ solver = NoSolve
    /\ outcome = NoOutcome
    /\ nSolve = 0
    /\ nBaseline = 0
    /\ SimIdle
    /\ SvcIdle
    /\ TaskIdle

\* a caller invokes simulate_scenarios(forecast_df, scenarios)
SimCall(df, scns) ==
    /\ sim_pc = "idle"
    /\ sim_pc' = "loop"
    /\ forecast_df' = df
    /\ scenarios' = scns
    /\ sim_i' = 0
    /\ results' = <<>>
    /\ sim_entry' = Config
    /\ UNCHANGED <<cfgVars, optVars, svcVars, taskVars, original_capacity, original_contract,
                   opt_result, sim_exc>>

\* loop body, first part: save the configuration and apply the overrides
SimApply ==
    /\ sim_pc = "loop"
    /\ sim_i < Len(scenarios)
    /\ original_capacity' = battery_capacity
    /\ original_contract' = max_contract
    /\ battery_capacity' =
          Get(scenarios[sim_i + 1].battery_capacity, battery_capacity)
    /\ max_contract' = Get(scenarios[sim_i + 1].max_contract, max_contract)
    /\ sim_pc' = "optimize"
    /\ UNCHANGED <<PULP_AVAILABLE, optVars, svcVars, taskVars, forecast_df, scenarios, sim_i,
                   opt_result, results, sim_exc, sim_entry>>

\* loop body: opt_result = self.optimize_schedule(...); an exception leaves
\* simulate_scenarios at this statement
SimOptimize ==
    /\ sim_pc = "optimize"
    /\ \E o \in OptimizeScheduleOutcomes(Config, forecast_df,
                    Get(scenarios[sim_i + 1].initial_soc, 5), PULP_AVAILABLE) :
          IF o.kind = "raised"
          THEN /\ sim_pc' = "raised"
               /\ sim_exc' = o.exc
               /\ opt_result' = opt_result
          ELSE /\ sim_pc' = "record"
               /\ sim_exc' = sim_exc
               /\ opt_result' = o
    /\ UNCHANGED <<cfgVars, optVars, svcVars, taskVars, forecast_df, scenarios, sim_i,
                   original_capacity, original_contract, results, sim_entry>>

\* a loop body that appends the result and keeps the overrides in place
SimRecordNoRestore ==
    /\ sim_pc = "record"
    /\ results' = Append(results,
          [scenario |-> ScenarioName(scenarios[sim_i + 1], sim_i + 1),
           battery_capacity |-> battery_capacity,
           max_contract |-> max_contract,
           result |-> opt_result.result])
    /\ sim_i' = sim_i + 1
    /\ sim_pc' = "loop"
    /\ UNCHANGED <<cfgVars, optVars, svcVars, taskVars, forecast_df, scenarios,
                   original_capacity, original_contract, opt_result, sim_exc,
                   sim_entry>>

\* loop body, last part: append the result and restore the configuration
SimRecord ==
    /\ sim_pc = "record"
    /\ results' = Append(results,
          [scenario |-> ScenarioName(scenarios[sim_i + 1], sim_i + 1),
           battery_capacity |-> battery_capacity,
           max_contract |-> max_contract,
           result |-> opt_result.result])
    /\ battery_capacity' = original_capacity
    /\ max_contract' = original_contract
    /\ sim_i' = sim_i + 1
    /\ sim_pc' = "loop"
    /\ UNCHANGED <<PULP_AVAILABLE, optVars, svcVars, taskVars, forecast_df, scenarios,
                   original_capacity, original_contract, opt_result, sim_exc,
                   sim_entry>>

\* return results
SimReturn ==
    /\ sim_pc = "loop"
    /\ sim_i = Len(scenarios)
    /\ sim_pc' = "returned"
    /\ UNCHANGED <<cfgVars, optVars, svcVars, taskVars, forecast_df, scenarios, sim_i,
                   original_capacity, original_contract, opt_result, results,
                   sim_exc, sim_entry>>

\* the caller has taken the list or the exception; the optimizer object keeps
\* the configuration the call left
SimExit ==
    /\ sim_pc \in {"returned", "raised"}
    /\ sim_pc' = "idle"
    /\ forecast_df' = NoFrame
    /\ scenarios' = <<>>
    /\ sim_i' = 0
    /\ original_capacity' = 0
    /\ original_contract' = 0
    /\ opt_result' = NoOutcome
    /\ results' = <<>>
    /\ sim_exc' = "None"
    /\ sim_entry' = [battery_capacity |-> 0, max_contract |-> 0]
    /\ UNCHANGED <<cfgVars, optVars, svcVars, taskVars>>

NextSim ==
    \/ \E df \in ForecastFrames, scns \in SeqsUpTo(ScenarioValues, MaxScenarios) :
          SimCall(df, scns)
    \/ SimApply
    \/ SimOptimize
    \/ SimRecord
    \/ SimReturn
    \/ SimExit

SpecSim == InitSim /\ [][NextSim]_vars

\* ------------------------------------------ OptimizationService.optimize
\* The service object is module-global and optimize takes no lock: the
\* statements of two calls in progress are free to interleave.  The optimizer
\* exists already (initialize() creates it on the first call).
ServiceFrames ==
    { [load_mw |-> <<4>>, solar_mw |-> <<0>>, wind_mw |-> <<0>>,
       tariff |-> <<5>>] }

Overrides(values) == {None} \cup {Some(v) : v \in values}

\* initialize() has built the optimizer from the settings: one battery
\* capacity and one contract capacity, the defaults of every call
InitSvc ==
    /\ battery_capacity = 6
    /\ max_contract = 5
    /\ PULP_AVAILABLE \in BOOLEAN
    /\ pc = "idle"
    /\ call = NoCall
    /\ solver = NoSolve
    /\ outcome = NoOutcome
    /\ nSolve = 0
    /\ nBaseline = 0
    /\ SimIdle
    /\ SvcIdle
    /\ TaskIdle

\* optimization_service.optimize(forecast_df, initial_soc, battery_capacity_kwh,
\* max_contract_kw) is entered by caller c
SvcCall(c, df, cap, con) ==
    /\ svc[c].pc = "idle"
    /\ svc' = [svc EXCEPT ![c] =
                  [NoServiceCall EXCEPT !.pc = "set_capacity",
                                        !.forecast_df = df,
                                        !.initial_soc10 = 5,
                                        !.battery_capacity_kwh = cap,
                                        !.max_contract_kw = con]]
    /\ UNCHANGED <<cfgVars, optVars, simVars, svc_defaults, taskVars>>

\* if battery_capacity_kwh is not None: save and override battery_capacity
SvcSetCapacity(c) ==
    /\ svc[c].pc = "set_capacity"
    /\ IF svc[c].battery_capacity_kwh.has
       THEN /\ svc' = [svc EXCEPT ![c].original_capacity = battery_capacity,
                                  ![c].pc = "set_contract"]
            /\ battery_capacity' = svc[c].battery_capacity_kwh.val
       ELSE /\ svc' = [svc EXCEPT ![c].pc = "set_contract"]
            /\ battery_capacity' = battery_capacity
    /\ UNCHANGED <<max_contract, PULP_AVAILABLE, optVars, simVars, svc_defaults, taskVars>>

\* if max_contract_kw is not None: save and override max_contract
SvcSetContract(c) ==
    /\ svc[c].pc = "set_contract"
    /\ IF svc[c].max_contract_kw.has
       THEN /\ svc' = [svc EXCEPT ![c].original_contract = max_contract,
                                  ![c].pc = "optimize"]
            /\ max_contract' = svc[c].max_contract_kw.val
       ELSE /\ svc' = [svc EXCEPT ![c].pc = "optimize"]
            /\ max_contract' = max_contract
    /\ UNCHANGED <<battery_capacity, PULP_AVAILABLE, optVars, simVars,
                   svc_defaults, taskVars>>

\* opt_result = self.optimizer.optimize_schedule(...), run on the
\* configuration the shared optimizer holds at this moment; an exception
\* leaves optimize at this statement
SvcOptimize(c) ==
    /\ svc[c].pc = "optimize"
    /\ \E o \in OptimizeScheduleOutcomes(Config, svc[c].forecast_df,
                    svc[c].initial_soc10, PULP_AVAILABLE) :
          svc' = [svc EXCEPT ![c].outcome = o,
                             ![c].pc = IF o.kind = "raised" THEN "raised"
                                       ELSE "restore"]
    /\ UNCHANGED <<cfgVars, optVars, simVars, svc_defaults, taskVars>>

\* restore the saved values of the keys that were overridden, and return
SvcRestore(c) ==
    /\ svc[c].pc = "restore"
    /\ battery_capacity' = IF svc[c].battery_capacity_kwh.has
                           THEN svc[c].original_capacity ELSE battery_capacity
    /\ max_contract' = IF svc[c].max_contract_kw.has
                       THEN svc[c].original_contract ELSE max_contract
    /\ svc' = [svc EXCEPT ![c].pc = "returned"]
    /\ UNCHANGED <<PULP_AVAILABLE, optVars, simVars, svc_defaults, taskVars>>

\* the caller has taken the result or the exception
SvcExit(c) ==
    /\ svc[c].pc \in {"returned", "raised"}
    /\ svc' = [svc EXCEPT ![c] = NoServiceCall]
    /\ UNCHANGED <<cfgVars, optVars, simVars, svc_defaults, taskVars>>

NextSvc ==
    \E c \in Calls :
        \/ \E df \in ServiceFrames, cap \in Overrides(CapacityValues),
              con \in Overrides(ContractValues) : SvcCall(c, df, cap, con)
        \/ SvcSetCapacity(c)
        \/ SvcSetContract(c)
        \/ SvcOptimize(c)
        \/ SvcRestore(c)
        \/ SvcExit(c)

SpecSvc == InitSvc /\ [][NextSvc]_vars

\* ------------------------------ POST /optimize and run_optimization_task
\* run_optimization_task is an async def without an await: once started, a
\* job runs to its end before the next queued job starts.  Every statement
\* that goes to the database or to a service may raise.  A commit that raises
\* leaves the row as it was committed last; the session's task object then
\* keeps the values assigned to it, or is expired back to the committed row.
\* Clients on other workers read the committed rows between any two
\* statements of the job.
InitTask ==
    /\ battery_capacity = 6
    /\ max_contract = 5
    /\ PULP_AVAILABLE \in BOOLEAN
    /\ pc = "idle"
    /\ call = NoCall
    /\ solver = NoSolve
    /\ outcome = NoOutcome
    /\ nSolve = 0
    /\ nBaseline = 0
    /\ SimIdle
    /\ SvcIdle
    /\ TaskIdle

\* ids of the rows of table forecast_results
StoredForecastIds == {1}

\* request.forecast_id: absent, the id of a stored forecast, an id past the
\* stored ones
ForecastIdValues == {None, Some(1), Some(2)}

\* the frame built from the stored forecasts, or returned by
\* ai_service.predict
TaskFrame == [load_mw |-> <<4>>, solar_mw |-> <<0>>, wind_mw |-> <<0>>,
              tariff |-> <<5>>]

\* POST /optimize: a row with a fresh task_id is committed with status
\* "pending" and progress 0, and the job is added to the background tasks
CreateOptimization(id, forecast_id, cap, con) ==
    /\ tasks[id] = NoRow
    /\ \A i \in TaskIds : i < id => tasks[i] # NoRow
    /\ tasks' = [tasks EXCEPT ![id] = PendingRow]
    /\ queue' = Append(queue,
                  [NoJob EXCEPT !.task_id = id, !.forecast_id = forecast_id,
                                !.battery_capacity_kwh = cap,
                                !.max_contract_kw = con])
    /\ UNCHANGED <<cfgVars, optVars, simVars, svcVars, plans, job, poll>>

\* the event loop starts the next background job: engine, session
JobStart ==
    /\ job.pc = "idle"
    /\ queue # <<>>
    /\ job' = [Head(queue) EXCEPT !.pc = "lookup"]
    /\ queue' = Tail(queue)
    /\ UNCHANGED <<cfgVars, optVars, simVars, svcVars, tasks, plans, poll>>

\* the job leaves its try block with exception e raised by step at
JobRaise(e, at) == [job EXCEPT !.pc = "handler", !.exc = e, !.raised_at = at]

\* db.commit() with the task object holding row: the row is committed and
\* the job goes on at next, or the commit raises at step at
CommitTask(row, next, at) ==
    \E ok \in BOOLEAN :
       IF ok
       THEN /\ tasks' = [tasks EXCEPT ![job.task_id] = row]
            /\ job' = [job EXCEPT !.pc = next, !.row = row]
       ELSE /\ tasks' = tasks
            /\ \E kept \in BOOLEAN :
                  job' = [JobRaise("OperationalError", at) EXCEPT
                             !.row = IF kept THEN row ELSE tasks[job.task_id]]

\* task = db.query(TaskStatus).filter(...).first(): the row POST committed,
\* or an exception of the query, which leaves the local task unassigned
JobLookup ==
    /\ job.pc = "lookup"
    /\ \E ok \in BOOLEAN :
          job' = IF ok THEN [job EXCEPT !.pc = "mark_running", !.task = "bound",
                                        !.row = tasks[job.task_id]]
                 ELSE JobRaise("OperationalError", "lookup")
    /\ UNCHANGED <<cfgVars, optVars, simVars, svcVars, tasks, plans, queue, poll>>

\* task.status = "running"; task.progress = 10.0; db.commit()
JobMarkRunning ==
    /\ job.pc = "mark_running"
    /\ CommitTask([job.row EXCEPT !.status = "running", !.progress = 10],
                  "load", "mark_running")
    /\ UNCHANGED <<cfgVars, optVars, simVars, svcVars, plans, queue, poll>>

\* if forecast_id: the stored forecasts with id >= forecast_id, ValueError
\* when there is none; else ai_service.predict(...), which may raise
JobLoad ==
    /\ job.pc = "load"
    /\ IF job.forecast_id.has /\ job.forecast_id.val # 0
       THEN IF \E i \in StoredForecastIds : i >= job.forecast_id.val
            THEN job' = [job EXCEPT !.pc = "progress30",
                                    !.forecast_df = TaskFrame]
            ELSE job' = JobRaise("ValueError", "load")
       ELSE \E ok \in BOOLEAN :
               job' = IF ok THEN [job EXCEPT !.pc = "progress30",
                                             !.forecast_df = TaskFrame]
                      ELSE JobRaise("RuntimeError", "load")
    /\ UNCHANGED <<cfgVars, optVars, simVars, svcVars, tasks, plans, queue, poll>>

\* task.progress = 30.0; db.commit()
JobProgress30 ==
    /\ job.pc = "progress30"
    /\ CommitTask([job.row EXCEPT !.progress = 30], "optimize", "progress30")
    /\ UNCHANGED <<cfgVars, optVars, simVars, svcVars, plans, queue, poll>>

\* the configuration OptimizationService.optimize solves with: the overrides
\* that are not None written over the fields of the shared optimizer
Overridden(cap, con) ==
    [battery_capacity |-> Get(cap, battery_capacity),
     max_contract |-> Get(con, max_contract)]

\* opt_result = optimization_service.optimize(forecast_df, initial_soc,
\* battery_capacity_kwh, max_contract_kw), the whole call: the overrides are
\* written, optimize_schedule runs, and the saved values are written back
\* when it returns; when it raises the call is left at that statement
JobOptimize ==
    /\ job.pc = "optimize"
    /\ LET cfg == Overridden(job.battery_capacity_kwh, job.max_contract_kw)
       IN  \E o \in OptimizeScheduleOutcomes(cfg, job.forecast_df, 5,
                                             PULP_AVAILABLE) :
              IF o.kind = "raised"
              THEN /\ battery_capacity' = cfg.battery_capacity
                   /\ max_contract' = cfg.max_contract
                   /\ job' = [JobRaise(o.exc, "optimize") EXCEPT !.entry = Config]
              ELSE /\ battery_capacity' = battery_capacity
                   /\ max_contract' = max_contract
                   /\ job' = [job EXCEPT !.pc = "progress70", !.opt_result = o,
                                         !.entry = Config]
    /\ UNCHANGED <<PULP_AVAILABLE, optVars, simVars, svcVars, tasks, plans,
                   queue, poll>>

\* task.progress = 70.0; db.commit()
JobProgress70 ==
    /\ job.pc = "progress70"
    /\ CommitTask([job.row EXCEPT !.progress = 70], "persist", "progress70")
    /\ UNCHANGED <<cfgVars, optVars, simVars, svcVars, plans, queue, poll>>

\* a persistence step that hands out the plan id without committing the plan
JobPersistUncommitted ==
    /\ job.pc = "persist"
    /\ \E ok \in BOOLEAN :
          IF ok
          THEN /\ plans' = plans
               /\ job' = [job EXCEPT !.pc = "complete",
                                     !.plan_id = Len(plans) + 1]
          ELSE /\ plans' = plans
               /\ job' = JobRaise("OperationalError", "persist")
    /\ UNCHANGED <<cfgVars, optVars, simVars, svcVars, tasks, queue, poll>>

\* schedule_json and plan are built; db.add(plan); db.commit();
\* db.refresh(plan): the plan row is committed and plan.id is its new key
JobPersist ==
    /\ job.pc = "persist"
    /\ \E ok \in BOOLEAN :
          IF ok
          THEN /\ plans' = Append(plans,
                              [status |-> job.opt_result.result.status])
               /\ job' = [job EXCEPT !.pc = "complete",
                                     !.plan_id = Len(plans) + 1]
          ELSE /\ plans' = plans
               /\ job' = JobRaise("OperationalError", "persist")
    /\ UNCHANGED <<cfgVars, optVars, simVars, svcVars, tasks, queue, poll>>

\* a completion that commits the status and the result without the progress
JobCompleteKeepsProgress ==
    /\ job.pc = "complete"
    /\ CommitTask([job.row EXCEPT
                      !.status = "completed",
                      !.result_json =
                          [has |-> TRUE, plan_id |-> job.plan_id,
                           status |-> job.opt_result.result.status]],
                  "end", "complete")
    /\ UNCHANGED <<cfgVars, optVars, simVars, svcVars, plans, queue, poll>>

\* task.status = "completed"; task.progress = 100.0; task.result_json =
\* {"plan_id": plan.id, "status": ..., ...}; db.commit()
JobComplete ==
    /\ job.pc = "complete"
    /\ CommitTask([job.row EXCEPT
                      !.status = "completed",
                      !.progress = 100,
                      !.result_json =
                          [has |-> TRUE, plan_id |-> job.plan_id,
                           status |-> job.opt_result.result.status]],
                  "end", "complete")
    /\ UNCHANGED <<cfgVars, optVars, simVars, svcVars, plans, queue, poll>>

\* except Exception as e: if task: task.status = "failed";
\* task.error_message = str(e); db.commit().  With task unassigned the test
\* `if task` raises UnboundLocalError, and an exception of the commit leaves
\* the handler too: the job ends with the row as it was
JobHandler ==
    /\ job.pc = "handler"
    /\ IF job.task = "unbound"
       THEN /\ tasks' = tasks
            /\ job' = [job EXCEPT !.pc = "crashed", !.exc = "UnboundLocalError"]
       ELSE \E ok \in BOOLEAN :
               IF ok
               THEN /\ tasks' = [tasks EXCEPT ![job.task_id] =
                         [job.row EXCEPT !.status = "failed",
                                         !.error_message = job.exc]]
                    /\ job' = [job EXCEPT !.pc = "end"]
               ELSE /\ tasks' = tasks
                    /\ job' = [job EXCEPT !.pc = "crashed",
                                          !.exc = "OperationalError"]
    /\ UNCHANGED <<cfgVars, optVars, simVars, svcVars, plans, queue, poll>>

\* finally: db.close(); the job is over
JobEnd ==
    /\ job.pc \in {"end", "crashed"}
    /\ job' = NoJob
    /\ UNCHANGED <<cfgVars, optVars, simVars, svcVars, tasks, plans, queue, poll>>

\* GET /optimize/{task_id}: the committed row of an existing task
PollStatus(id) ==
    /\ poll.pc = "idle"
    /\ tasks[id] # NoRow
    /\ poll' = [pc |-> "seen", task_id |-> id, status |-> tasks[id].status,
                plan_id |-> tasks[id].result_json.plan_id, response |-> 0]
    /\ UNCHANGED <<cfgVars, optVars, simVars, svcVars, tasks, plans, queue, job>>

\* GET /plan/{plan_id} after status "completed" was seen: 404 when no plan
\* has that id
PollPlan ==
    /\ poll.pc = "seen"
    /\ poll.status = "completed"
    /\ poll' = [poll EXCEPT !.pc = "got_plan",
                            !.response = IF poll.plan_id \in 1..Len(plans)
                                         THEN 200 ELSE 404]
    /\ UNCHANGED <<cfgVars, optVars, simVars, svcVars, tasks, plans, queue, job>>

\* the client goes back to polling
PollAgain ==
    /\ poll.pc \in {"seen", "got_plan"}
    /\ poll' = NoPoll
    /\ UNCHANGED <<cfgVars, optVars, simVars, svcVars, tasks, plans, queue, job>>

\* the statements of the background job
NextJob ==
    \/ JobStart
    \/ JobLookup
    \/ JobMarkRunning
    \/ JobLoad
    \/ JobProgress30
    \/ JobOptimize
    \/ JobProgress70
    \/ JobPersist
    \/ JobComplete
    \/ JobHandler
    \/ JobEnd

NextTask ==
    \/ \E id \in TaskIds, f \in ForecastIdValues, cap \in {None, Some(0)},
          con \in {None, Some(0)} : CreateOptimization(id, f, cap, con)
    \/ NextJob
    \/ \E id \in TaskIds : PollStatus(id)
    \/ PollPlan
    \/ PollAgain

SpecTask == InitTask /\ [][NextTask]_vars

\* the event loop runs every background task it was given
SpecTaskLive == SpecTask /\ WF_vars(NextJob)

\* ------------------------------------------------ properties of optimize
\* the contract of optimize: T >= 1, arrays of equal length, initial_soc in [0,1]
ValidInput(inp) ==
    /\ Len(inp.load) >= 1
    /\ Len(inp.solar) = Len(inp.load)
    /\ Len(inp.wind) = Len(inp.load)
    /\ Len(inp.tariffs) = Len(inp.load)
    /\ inp.initial_soc10 \in 0..10

Finished == pc \in {"done", "raised"}
ReturnedStatus(st) == pc = "done" /\ outcome.result.status = st
Hours == 1..Len(call.load)

\* the schedule of the returned result, hour by hour; charge, discharge and
\* wind_used of an Optimal result are the solver's values, those of a Baseline
\* result are 0, 0 and min(wind, load - solar_used)
GridAt(t) == outcome.result.grid_consumption[t]
SolarUsedAt(t) == outcome.result.solar_utilization[t]
ChargeAt(t) ==
    IF outcome.result.status = "Optimal"
    THEN solver.values.hours[t].battery_charge ELSE 0
DischargeAt(t) ==
    IF outcome.result.status = "Optimal"
    THEN solver.values.hours[t].battery_discharge ELSE 0
WindUsedAt(t) ==
    IF outcome.result.status = "Optimal"
    THEN solver.values.hours[t].wind_used
    ELSE Min2(call.wind[t], call.load[t] - SolarUsedAt(t))
NetLoadAt(t) == Max2(call.load[t] - call.solar[t] - call.wind[t], 0)

\* C1: an empty or length-mismatched input is rejected before any solve
\* attempt and before any baseline computation, and no result is returned for
\* it (whatever the name of the error that rejects it).
C1_RejectsInvalidInput ==
    (pc # "idle" /\ ~(Len(call.load) >= 1
                      /\ Len(call.solar) = Len(call.load)
                      /\ Len(call.wind) = Len(call.load)
                      /\ Len(call.tariffs) = Len(call.load)))
    => /\ nSolve = 0
       /\ nBaseline = 0
       /\ pc # "done"

\* C2: for a valid input, a solver status other than Optimal, or no solver
\* backend, ends the call with the returned baseline (status "Baseline", grid
\* = net load, battery idle, total cost = baseline cost) and no exception;
\* "Optimal" is returned only after the solver reported Optimal.
C2_DegradesToBaseline ==
    (Finished /\ ValidInput(call))
    => /\ (~PULP_AVAILABLE \/ solver.status # "Optimal")
          => /\ pc = "done"
             /\ outcome.kind = "returned"
             /\ outcome.result.status = "Baseline"
             /\ outcome.result.total_cost10 = outcome.result.baseline_cost10
             /\ \A t \in Hours : /\ GridAt(t) = NetLoadAt(t)
                                 /\ outcome.result.battery_schedule[t] = 0
       /\ (pc = "done" /\ outcome.result.status = "Optimal")
          => (PULP_AVAILABLE /\ solver.status = "Optimal")

C2_Witness ==
    /\ pc = "done" /\ ValidInput(call) /\ PULP_AVAILABLE
    /\ solver.status = "Infeasible"
    /\ outcome.result.status = "Baseline"

\* C3: energy balance of every returned Optimal or Baseline schedule:
\* grid + solar_used + wind_used + discharge*efficiency - charge >= load.
C3_EnergyBalance ==
    (pc = "done" /\ ValidInput(call)
       /\ outcome.result.status \in {"Optimal", "Baseline"})
    => \A t \in Hours :
          10 * (GridAt(t) + SolarUsedAt(t) + WindUsedAt(t))
            + 9 * DischargeAt(t) - 10 * ChargeAt(t) >= 10 * call.load[t]

C3_Witness ==
    /\ ReturnedStatus("Optimal") /\ ValidInput(call)
    /\ \E t \in Hours : DischargeAt(t) > 0 /\ GridAt(t) < call.load[t]

\* C4: in every Optimal result soc[0] = initial_soc*capacity, soc[t+1] =
\* soc[t] + charge[t]*efficiency - discharge[t], and every soc[t] lies in
\* [min_soc*capacity, max_soc*capacity].
C4_SocRecursionAndBounds ==
    (ReturnedStatus("Optimal") /\ ValidInput(call))
    => LET soc10 == solver.values.soc10
       IN  /\ Len(soc10) = Len(call.load) + 1
           /\ soc10[1] = call.initial_soc10 * battery_capacity
           /\ \A t \in Hours :
                 soc10[t + 1] = soc10[t] + 9 * ChargeAt(t) - 10 * DischargeAt(t)
           /\ \A i \in 1..Len(soc10) :
                 /\ battery_capacity <= soc10[i]
                 /\ soc10[i] <= 9 * battery_capacity

C4_Witness ==
    /\ ReturnedStatus("Optimal") /\ ValidInput(call)
    /\ \E t, u \in Hours : ChargeAt(t) > 0 /\ DischargeAt(u) > 0

\* C5: in every Optimal or Baseline result no hour both charges and
\* discharges.
C5_ChargeDischargeExclusive ==
    (pc = "done" /\ ValidInput(call)
       /\ outcome.result.status \in {"Optimal", "Baseline"})
    => \A t \in Hours : ~(ChargeAt(t) > 0 /\ DischargeAt(t) > 0)

C5_Witness ==
    /\ ReturnedStatus("Optimal") /\ ValidInput(call)
    /\ \E t \in Hours : /\ ChargeAt(t) > 0
                         /\ solver.values.hours[t].charge_flag = 1
    /\ \E t \in Hours : /\ DischargeAt(t) > 0
                         /\ solver.values.hours[t].charge_flag = 0

\* C6 as stated: in every Optimal or Baseline result and every hour,
\* solar_used <= solar forecast, wind_used <= wind forecast and
\* 0 <= grid <= max_contract.
C6_BoundsOptimalOrBaseline ==
    (pc = "done" /\ ValidInput(call)
       /\ outcome.result.status \in {"Optimal", "Baseline"})
    => \A t \in Hours :
          /\ SolarUsedAt(t) <= call.solar[t]
          /\ WindUsedAt(t) <= call.wind[t]
          /\ 0 <= GridAt(t) /\ GridAt(t) <= max_contract

\* C6 amended: the three bounds hold in every Optimal result; in a Baseline
\* result solar_used <= solar, wind_used <= wind and grid = max(load - solar
\* - wind, 0) >= 0, which stays within max_contract only where the net load
\* does.
C6_BoundsAmended ==
    (pc = "done" /\ ValidInput(call))
    => /\ outcome.result.status = "Optimal"
          => \A t \in Hours :
                /\ SolarUsedAt(t) <= call.solar[t]
                /\ WindUsedAt(t) <= call.wind[t]
                /\ 0 <= GridAt(t) /\ GridAt(t) <= max_contract
       /\ outcome.result.status = "Baseline"
          => \A t \in Hours :
                /\ SolarUsedAt(t) <= call.solar[t]
                /\ WindUsedAt(t) <= call.wind[t]
                /\ GridAt(t) = NetLoadAt(t) /\ 0 <= GridAt(t)
                /\ (GridAt(t) <= max_contract <=> NetLoadAt(t) <= max_contract)

C6_Witness ==
    /\ ReturnedStatus("Baseline") /\ ValidInput(call)
    /\ PULP_AVAILABLE /\ solver.status = "Infeasible"
    /\ \E t \in Hours : GridAt(t) > max_contract

\* C7 as stated: in every Optimal or Baseline result grid <= 0.8*max_contract
\* in every peak hour (tariff >= 0.9 x peak rate).
C7_PeakCapOptimalOrBaseline ==
    (pc = "done" /\ ValidInput(call)
       /\ outcome.result.status \in {"Optimal", "Baseline"})
    => \A t \in Hours :
          call.tariffs[t] * 1000 >= 934 * 9
            => 10 * GridAt(t) <= 8 * max_contract

\* C7 amended: in every Optimal result grid <= 0.8*max_contract in every peak
\* hour and grid <= max_contract in the other hours; the grid of a Baseline
\* result is the net load, with no cap.
C7_PeakCapAmended ==
    (pc = "done" /\ ValidInput(call))
    => /\ outcome.result.status = "Optimal"
          => \A t \in Hours :
                IF call.tariffs[t] * 1000 >= 934 * 9
                THEN 10 * GridAt(t) <= 8 * max_contract
                ELSE GridAt(t) <= max_contract
       /\ outcome.result.status = "Baseline"
          => \A t \in Hours : GridAt(t) = NetLoadAt(t)

C7_Witness ==
    /\ ReturnedStatus("Optimal") /\ ValidInput(call)
    /\ \E t \in Hours : /\ call.tariffs[t] * 1000 >= 934 * 9
                        /\ 10 * call.load[t] > 8 * max_contract
                        /\ 10 * GridAt(t) <= 8 * max_contract

\* ------------------------------------- properties of simulate_scenarios
\* the configuration scenario i runs with when it is run alone on an
\* optimizer holding the configuration cfg
ScenarioConfig(cfg, scenario) ==
    [battery_capacity |-> Get(scenario.battery_capacity, cfg.battery_capacity),
     max_contract |-> Get(scenario.max_contract, cfg.max_contract)]

\* C8: when simulate_scenarios has ended, by returning or by an exception of
\* a scenario's optimize_schedule, battery_capacity and max_contract are what
\* they were before the call.
C8_ConfigRestoredAfterRun ==
    sim_pc \in {"returned", "raised"}
    => /\ battery_capacity = sim_entry.battery_capacity
       /\ max_contract = sim_entry.max_contract

\* C10: in the list simulate_scenarios returns, the entry of scenario i is the
\* one scenario i gives when it is run alone on an optimizer holding the
\* configuration of the call's start: its battery_capacity and max_contract
\* are the scenario's own overrides, or the original values for the keys it
\* omits, and its result is an outcome of optimize_schedule under exactly
\* that configuration.
C10_ScenarioResultsIsolated ==
    sim_pc = "returned"
    => /\ Len(results) = Len(scenarios)
       /\ \A i \in 1..Len(results) :
             LET alone == ScenarioConfig(sim_entry, scenarios[i])
             IN  /\ results[i].battery_capacity = alone.battery_capacity
                 /\ results[i].max_contract = alone.max_contract
                 /\ Returned(results[i].result)
                      \in OptimizeScheduleOutcomes(alone, forecast_df,
                              Get(scenarios[i].initial_soc, 5), PULP_AVAILABLE)

C10_Witness ==
    /\ sim_pc = "returned"
    /\ Len(results) = 2
    /\ scenarios[1].battery_capacity.has /\ scenarios[1].max_contract.has
    /\ ~scenarios[2].battery_capacity.has /\ ~scenarios[2].max_contract.has
    /\ results[1].battery_capacity # sim_entry.battery_capacity
    /\ results[1].max_contract # sim_entry.max_contract
    /\ results[2].battery_capacity = sim_entry.battery_capacity
    /\ results[2].max_contract = sim_entry.max_contract
    /\ results[2].result # results[1].result

\* ------------------------------- properties of OptimizationService.optimize
\* C9: every call solves with exactly its own overrides, or the original
\* defaults for the values it did not override, whatever the other call does
\* in between: when a call is at its optimize_schedule statement, the shared
\* optimizer holds that configuration.
C9_CallSolvesWithOwnOverrides ==
    \A c \in Calls :
       svc[c].pc = "optimize"
       => /\ battery_capacity
               = Get(svc[c].battery_capacity_kwh, svc_defaults.battery_capacity)
          /\ max_contract
               = Get(svc[c].max_contract_kw, svc_defaults.max_contract)

\* ------------------------------------------ properties of the result values
\* C11: every returned result with status "Baseline" has savings = 0,
\* savings_percent = 0 and total_cost = baseline_cost.
C11_BaselineDegenerate ==
    ReturnedStatus("Baseline")
    => /\ outcome.result.savings10 = 0
       /\ outcome.result.savings_percent[1] = 0
       /\ outcome.result.total_cost10 = outcome.result.baseline_cost10

C11_Witness ==
    /\ ReturnedStatus("Baseline") /\ PULP_AVAILABLE
    /\ solver.status = "Not Solved"
    /\ outcome.result.baseline_cost10 > 0
    /\ \E t \in Hours : call.solar[t] > 0 /\ call.load[t] > call.solar[t]

\* sum over t of max(load[t]-solar[t]-wind[t], 0)*tariff[t], times 10
NetLoadCost10 ==
    10 * SumOver([t \in Hours |-> NetLoadAt(t) * call.tariffs[t]], Hours)

\* C12: the baseline_cost of an Optimal result is the baseline_cost a Baseline
\* result carries for the same input: sum of max(load-solar-wind, 0)*tariff.
C12_OptimalBaselineCostIsNetLoadCost ==
    (ReturnedStatus("Optimal") /\ ValidInput(call))
    => outcome.result.baseline_cost10 = NetLoadCost10

\* C13: for every valid input the returned result has at least one
\* recommendation, on the Optimal path and on the Baseline path.
C13_RecommendationsNonEmpty ==
    (pc = "done" /\ ValidInput(call))
    => Len(outcome.result.recommendations) >= 1

C13_Witness ==
    /\ ReturnedStatus("Optimal") /\ ValidInput(call)
    /\ outcome.result.recommendations = <<"no_special">>

\* the names a per-hour wind series could have in an OptimizationResult
WindFields == {"wind_used", "wind_utilization", "wind_schedule"}

\* C17: for arrays of one length T the baseline has cost = sum of
\* max(load-solar-wind, 0)*tariff and a schedule with grid = max(load-solar-
\* wind, 0), battery_net = 0, solar_used = min(solar, load) and wind_used =
\* min(wind, load - solar_used) in every hour.
C17_BaselineEstimate ==
    (ReturnedStatus("Baseline")
       /\ Len(call.solar) = Len(call.load) /\ Len(call.wind) = Len(call.load)
       /\ Len(call.tariffs) = Len(call.load))
    => LET r == outcome.result
       IN  /\ r.total_cost10 = NetLoadCost10
           /\ Len(r.grid_consumption) = Len(call.load)
           /\ Len(r.battery_schedule) = Len(call.load)
           /\ Len(r.solar_utilization) = Len(call.load)
           /\ \A t \in Hours :
                 /\ r.grid_consumption[t] = NetLoadAt(t)
                 /\ r.battery_schedule[t] = 0
                 /\ r.solar_utilization[t] = Min2(call.solar[t], call.load[t])
           /\ \E f \in DOMAIN r \cap WindFields :
                 r[f] = [t \in Hours |->
                           Min2(call.wind[t],
                                call.load[t] - Min2(call.solar[t], call.load[t]))]

\* C18: within one call the solver runs at most once and the baseline is
\* computed at most once; a status other than Optimal is followed at once by
\* the one baseline computation and the end of the call, never by a second
\* solve.
C18_OneSolveOneFallback ==
    /\ [](/\ nSolve <= 1
          /\ nBaseline <= 1
          /\ (Finished /\ solver.status \notin {"None", "Optimal"})
                => (nSolve = 1 /\ nBaseline = 1))
    /\ [][(pc = "solved" /\ solver.status # "Optimal")
            => (/\ pc' \in {"done", "raised"}
                /\ nSolve' = 1
                /\ nBaseline' = 1)]_vars

C18_Witness ==
    /\ pc = "done" /\ solver.status = "Infeasible"
    /\ nSolve = 1 /\ nBaseline = 1
    /\ outcome.result.status = "Baseline"
    /\ ValidInput(call) /\ call.initial_soc10 = 10

\* ------------------------------------------ the spec's concrete scenarios
\* C14: T=3, load 100 kW and tariff 5 in every hour, no solar, no wind,
\* battery_capacity 0, defaults otherwise: the call returns, without raising,
\* a result with optimized cost = baseline cost = 1500 and savings = 0.
C14_Scenario1 ==
    (Finished /\ call = Case1 /\ battery_capacity = 0 /\ max_contract = 50)
    => /\ pc = "done"
       /\ outcome.result.total_cost10 = 1500
       /\ outcome.result.baseline_cost10 = 1500
       /\ outcome.result.savings10 = 0

\* C15: T=2, load 100/100, solar 50/0, tariff 2/5, battery_capacity 100,
\* initial_soc 0.5: the schedule of the solved model charges in hour 0 and
\* discharges in hour 1, baseline_cost = 600 and optimized cost < baseline
\* cost.
C15_Scenario2 ==
    (Finished /\ call = Case2 /\ battery_capacity = 10 /\ max_contract = 50
       /\ PULP_AVAILABLE /\ solver.status = "Optimal")
    => /\ pc = "done"
       /\ outcome.result.battery_schedule[1] > 0
       /\ outcome.result.battery_schedule[2] < 0
       /\ outcome.result.baseline_cost10 = 600
       /\ outcome.result.total_cost10 < outcome.result.baseline_cost10

\* C16: max_contract 0, one hour of load 50 kW, no solar, no wind, default
\* battery: the constraint set is infeasible, the solver never reports
\* Optimal, and the call returns a result with status "Baseline" instead of
\* raising.
C16_Scenario3 ==
    (call = Case3 /\ battery_capacity = 10 /\ max_contract = 0)
    => /\ Feasible(Config, call) = {}
       /\ solver.status # "Optimal"
       /\ Finished => (pc = "done" /\ outcome.result.status = "Baseline")

C16_Witness ==
    /\ call = Case3 /\ battery_capacity = 10 /\ max_contract = 0
    /\ pc = "done" /\ solver.status = "Infeasible"
    /\ outcome.result.status = "Baseline"
    /\ outcome.result.grid_consumption = <<5>>

\* --------------------------------------- properties of optimize_schedule
\* C20: with load_max_mw = max(load_mw) if positive and 1 otherwise, every
\* load, solar and wind value handed to optimize is the frame's value times
\* 1000 * 0.8*max_contract / (load_max_mw*1000); the divisor is never zero,
\* so an all-zero load series is scaled without a division by zero (the only
\* ZeroDivisionError of the call is the one of an Optimal solve with capacity
\* 0); and when max(load_mw) > 0 the scaled load peak is 0.8*max_contract.
C20_ForecastScaling ==
    (pc # "idle" /\ forecast_df # NoFrame)
    => LET top == SeqMax(forecast_df.load_mw)
           load_max_mw == IF top > 0 THEN top ELSE 1
           scaled(raw, kw) ==
               /\ Len(kw) = Len(raw)
               /\ \A t \in 1..Len(raw) :
                     10 * load_max_mw * 1000 * kw[t]
                       = raw[t] * 1000 * 8 * max_contract
       IN  /\ load_max_mw * 1000 # 0
           /\ scaled(forecast_df.load_mw, call.load)
           /\ scaled(forecast_df.solar_mw, call.solar)
           /\ scaled(forecast_df.wind_mw, call.wind)
           /\ call.tariffs = forecast_df.tariff
           /\ top > 0 => 10 * SeqMax(call.load) = 8 * max_contract
           /\ (pc = "raised" /\ outcome.exc = "ZeroDivisionError")
                 => (battery_capacity = 0 /\ solver.status = "Optimal")

C20_Witness ==
    /\ pc = "entry" /\ max_contract = 5
    /\ forecast_df.load_mw = <<0, 0>> /\ forecast_df.solar_mw = <<1, 0>>
    /\ call.load = <<0, 0>> /\ call.solar = <<4, 0>>

\* ------------------------------------------------ two calls, one input
\* what two optimize() calls with the arguments and the configuration of the
\* call in progress can return or raise, nothing being mutated in between
TwoCalls ==
    OptimizeOutcomes(Config, call, PULP_AVAILABLE)
      \X OptimizeOutcomes(Config, call, PULP_AVAILABLE)

Recommendations ==
    {outcome.result.recommendations[i]
        : i \in 1..Len(outcome.result.recommendations)}

\* peak_load and peak_grid of the returned schedule
PeakLoad == SumOver(call.load, PeakHours(call.tariffs))
PeakGrid == SumOver(outcome.result.grid_consumption, PeakHours(call.tariffs))

SolarEntries ==
    {i \in 1..Len(outcome.result.recommendations)
        : outcome.result.recommendations[i] \in {"solar_low", "solar_good"}}

\* C22: rule 3 emits exactly one solar-utilization entry for every input, an
\* all-zero solar forecast included (utilization 0); the utilization is the
\* sum of the schedule's solar_used over the sum of the solar forecast, and
\* the entry carries the storage-expansion suggestion iff it is below 80%.
C22_SolarUtilizationEntry ==
    (ReturnedStatus("Optimal") /\ ValidInput(call))
    => LET used == SeqSum(outcome.result.solar_utilization)
           available == SeqSum(call.solar)
           below80 == IF available > 0 THEN 100 * used < 80 * available
                      ELSE TRUE
       IN  /\ Cardinality(SolarEntries) = 1
           /\ "solar_low" \in Recommendations <=> below80
           /\ "solar_good" \in Recommendations <=> ~below80

\* ------------------------------------------ properties of the task jobs
\* C23: every task POST /optimize created reaches status "completed" or
\* "failed" once its background job runs, whichever step of the job raises;
\* it does not stay "pending" or "running" forever.
C23_TaskReachesTerminalStatus ==
    \A id \in TaskIds :
       (tasks[id].status = "pending")
          ~> (tasks[id].status \in {"completed", "failed"})

\* C24: whenever a task's committed status is "completed", its plan has been
\* committed before and its result carries the id of that plan (and of no
\* other task's plan), so GET /plan/{plan_id} issued after "completed" was
\* seen finds the plan and never answers 404.
C24_CompletedAfterPlanCommitted ==
    /\ \A id \in TaskIds :
          tasks[id].status = "completed"
          => /\ tasks[id].result_json.has
             /\ tasks[id].result_json.plan_id \in 1..Len(plans)
             /\ plans[tasks[id].result_json.plan_id].status
                  = tasks[id].result_json.status
             /\ \A other \in TaskIds \ {id} :
                   tasks[other].status = "completed"
                   => tasks[other].result_json.plan_id
                        # tasks[id].result_json.plan_id
    /\ poll.pc = "got_plan" => poll.response = 200

C24_Witness ==
    /\ poll.pc = "got_plan" /\ poll.response = 200
    /\ poll.task_id = 2 /\ poll.plan_id = 2
    /\ tasks[1].status = "completed" /\ tasks[1].result_json.plan_id = 1

\* C25: when OptimizationService.optimize has ended, by returning or by
\* raising out of optimize_schedule, battery_capacity and max_contract of the
\* shared optimizer are what they were before the call, so a later request
\* without overrides solves with the original defaults.
C25_ServiceRestoresConfig ==
    /\ (job.pc = "progress70" \/ job.raised_at = "optimize")
          => Config = job.entry
    /\ (job.pc = "optimize" /\ ~job.battery_capacity_kwh.has
          /\ ~job.max_contract_kw.has)
          => Overridden(job.battery_capacity_kwh, job.max_contract_kw)
               = svc_defaults

\* what every committed row satisfies: "completed" comes with progress 100 and
\* a result, "failed" with an error message, and progress is one of the steps
RowConsistent(row) ==
    /\ row.progress \in {0, 10, 30, 70, 100}
    /\ row.status = "completed" => (row.progress = 100 /\ row.result_json.has)
    /\ row.status = "failed" => row.error_message # "None"

\* the moves of the status the claim allows, creation included
StatusMoves ==
    { <<"none", "pending">>, <<"pending", "running">>,
      <<"running", "completed">>, <<"running", "failed">> }

C27_SocOutsideBoundsIsInfeasible ==
    (pc # "idle" /\ ValidInput(call) /\ battery_capacity > 0
       /\ (call.initial_soc10 < min_soc10 \/ call.initial_soc10 > max_soc10))
    => /\ ~SocBounds(SocInitial(battery_capacity, call.initial_soc10),
                     battery_capacity)
       /\ Feasible(Config, call) = {}
       /\ solver.status # "Optimal"
       /\ Finished => ReturnedStatus("Baseline")

C27_Witness ==
    /\ ReturnedStatus("Baseline") /\ ValidInput(call)
    /\ battery_capacity > 0 /\ max_contract > 0
    /\ call.initial_soc10 = 0 /\ solver.status = "Infeasible"
    /\ \A t \in Hours : call.load[t] <= max_contract /\ call.tariffs[t] = 5

\* ------------------------------- feasibility on the optimize_schedule path
\* hour t with grid_buy = load[t], the battery idle and no renewable used
IdleHour(t) ==
    [grid_buy |-> call.load[t], battery_charge |-> 0, battery_discharge |-> 0,
     solar_used |-> 0, wind_used |-> 0, charge_flag |-> 0]

\* C28: through optimize_schedule, for a forecast with non-negative loads,
\* max_contract > 0 and initial_soc in [min_soc, max_soc], the scaled load
\* never exceeds 0.8*max_contract, so grid[t] = load[t] with the battery idle
\* satisfies every bound and constraint in every hour; the problem is
\* feasible and the solver never reports Infeasible.
C28_SchedulePathFeasible ==
    (pc # "idle" /\ forecast_df # NoFrame /\ max_contract > 0
       /\ call.initial_soc10 >= min_soc10 /\ call.initial_soc10 <= max_soc10
       /\ \A t \in 1..Len(forecast_df.load_mw) : forecast_df.load_mw[t] >= 0)
    => /\ \A t \in Hours :
             /\ 10 * call.load[t] <= peak_limit_ratio10 * max_contract
             /\ EnergyBalance(IdleHour(t), call.load[t])
             /\ GridBuyBounds(IdleHour(t), max_contract)
             /\ PeakShaving(IdleHour(t), call.tariffs[t], max_contract)
             /\ BatteryRateBounds(IdleHour(t), battery_capacity)
             /\ ChargeExclusive(IdleHour(t), battery_capacity)
             /\ RenewableVarBounds(IdleHour(t), call.solar[t], call.wind[t])
             /\ RenewableLimit(IdleHour(t), call.solar[t], call.wind[t])
       /\ SocBounds(SocInitial(battery_capacity, call.initial_soc10),
                    battery_capacity)
       /\ Feasible(Config, call) # {}
       /\ solver.status # "Infeasible"

C28_Witness ==
    /\ ReturnedStatus("Optimal") /\ forecast_df # NoFrame
    /\ max_contract > 0 /\ call.initial_soc10 = 5
    /\ \E t \in Hours : /\ IsPeakTariff(call.tariffs[t])
                        /\ 10 * call.load[t] = peak_limit_ratio10 * max_contract
                        /\ GridAt(t) <= call.load[t]

DoNothingAllowed(t) ==
    /\ GridBuyBounds(IdleHour(t), max_contract)
    /\ PeakShaving(IdleHour(t), call.tariffs[t], max_contract)

====
